---- MODULE Spec2Model ----
(***************************************************************************)
(* Model of the user CRUD service: handler -> use case -> repository ->    *)
(* storage (a single "users" table with a primary key on id and unique     *)
(* constraints on email and membership_id).                                *)
(*                                                                         *)
(* Requests are served concurrently.  Every repository call is one atomic  *)
(* storage statement; a use-case method is a sequence of such calls, so    *)
(* the steps of two requests may interleave between repository calls.      *)
(***************************************************************************)
EXTENDS Integers, Sequences, FiniteSets, TLC

VARIABLES
    users,      \* the rows of the users table
    seq,        \* storage AUTOINCREMENT counter: the largest id ever assigned
    nreq,       \* number of requests accepted so far (also the logical clock)
    pc,         \* pc[p]: position of the request served by slot p
    req,        \* req[p]: the request served by slot p (number, op, id, body)
    loc,        \* loc[p]: the use case's local *domain.User ({} is nil)
    res,        \* res[p]: what the use case returned: [user, err]
    calls,      \* calls[p]: repository methods called by the request so far
    faults,     \* faults[p]: repository methods that returned a storage fault
    wrote,      \* wrote[p]: the request changed the table
    overlap,    \* overlap[p]: another request was in flight during this one
    invoked,    \* invoked[p]: use-case methods the handler called for the request
    resp        \* resp[p]: the HTTP response of the handler: [status, error]

vars == <<users, seq, nreq, pc, req, loc, res, calls, faults, wrote, overlap,
          invoked, resp>>

(***************************************************************************)
(* Bounds                                                                  *)
(***************************************************************************)
MaxRequests == 2

\* Two interchangeable request slots (goroutines serving requests).
Procs == {"p1", "p2"}

Other(p) == IF p = "p1" THEN "p2" ELSE "p1"

(***************************************************************************)
(* Error values (the error strings of the code; "" is the nil error)       *)
(***************************************************************************)
NoErr          == ""
ErrRequired    == "first name, last name, and email are required"
ErrDuplicate   == "user with this email already exists"
ErrNotFound    == "user not found"
ErrInvalidID   == "invalid user ID"
\* raw storage errors, passed through unchanged by repository and use case
ErrUniqueEmail == "UNIQUE constraint failed: users.email"
ErrUniqueMID   == "UNIQUE constraint failed: users.membership_id"
ErrStorage     == "database error"

(***************************************************************************)
(* GenerateMembershipID: fmt.Sprintf("LBK%06d", time.Now().UnixNano()%999999) *)
(* A string is a sequence of one-character strings.                        *)
(***************************************************************************)
\* the extreme clock values the model draws (the integers of TLC are
\* narrower than int64)
NanoLow  == -2147483647
NanoHigh == 2147483647

MembershipModulus == 999999
MembershipWidth   == 6

Digit(d) == CASE d = 0 -> "0" [] d = 1 -> "1" [] d = 2 -> "2" [] d = 3 -> "3"
              [] d = 4 -> "4" [] d = 5 -> "5" [] d = 6 -> "6" [] d = 7 -> "7"
              [] d = 8 -> "8" [] d = 9 -> "9"

RECURSIVE Decimal(_)
\* %d of a non-negative integer: its decimal digits, no padding
Decimal(n) == IF n < 10 THEN <<Digit(n)>>
              ELSE Decimal(n \div 10) \o <<Digit(n % 10)>>

RECURSIVE ZeroPad(_, _)
\* the 0 flag with a width: pad on the left with "0" up to the width,
\* never truncating
ZeroPad(s, w) == IF Len(s) >= w THEN s ELSE ZeroPad(<<"0">> \o s, w)

\* the % of Go on int64: the division truncates toward zero, so the
\* remainder has the sign of the dividend
GoRem(a, b) == IF a >= 0 THEN a % b ELSE -((-a) % b)

\* %0wd: the sign counts toward the width, the zeros go between the sign and
\* the digits
SprintfPadded(n, w) ==
    IF n < 0 THEN <<"-">> \o ZeroPad(Decimal(-n), w - 1)
    ELSE ZeroPad(Decimal(n), w)

GenerateMembershipID(nano) ==
    <<"L", "B", "K">> \o SprintfPadded(GoRem(nano, MembershipModulus), MembershipWidth)

\* values of time.Now().UnixNano() the requests of Spec draw from
NanoTimes == {1234, 5678}

\* values of time.Now().UnixNano(), an int64, for the study of
\* GenerateMembershipID alone: around zero, around the modulus and its
\* negative, and far from both; negative when the clock reads a time
\* before 1970
ClockValues ==
    (-1000002 .. -999997) \cup (-12 .. 12) \cup (999990 .. 1000010)
    \cup {NanoLow, -123456, 1234, 5678, 123456, 1999997, 1999998, NanoHigh}

(***************************************************************************)
(* Domain                                                                  *)
(***************************************************************************)
\* domain.User; CreatedAt/UpdatedAt are storage bookkeeping and not modelled
NewUser(id, fn, ln, em, ph, mt, mid, jd, pts) ==
    [ID |-> id, FirstName |-> fn, LastName |-> ln, Email |-> em, Phone |-> ph,
     MembershipType |-> mt, MembershipID |-> mid, JoinDate |-> jd, Points |-> pts]

\* SeedData: the two users inserted into an empty table at startup
SeedUsers ==
    { NewUser(1, "Somchai", "Jaidee", "somchai@example.com", "081-234-5678",
              "Gold", GenerateMembershipID(1234), -12, 15420),
      NewUser(2, "Somying", "Rakdee", "somying@example.com", "089-765-4321",
              "Silver", GenerateMembershipID(1235), -6, 8750) }

\* domain.CreateUserRequest / domain.UpdateUserRequest bodies
Body(fn, ln, em, ph, mt, pts) ==
    [FirstName |-> fn, LastName |-> ln, Email |-> em, Phone |-> ph,
     MembershipType |-> mt, Points |-> pts]

ReqEmails == {"", "somchai@example.com", "john@example.com"}

\* A create request leaves out at most one of the required fields; its
\* optional fields are all omitted or all supplied.
CreateBodies ==
    { Body(r[1], r[2], r[3], o[1], o[2], o[3]) :
        r \in { <<"John", "Doe", em>> : em \in ReqEmails }
               \cup { <<"", "Doe", "john@example.com">>, <<"John", "", "john@example.com">> },
        o \in { <<"", "", 0>>, <<"123-456-7890", "Silver", 200>> } }

\* An update request supplies no field, one field (the first name or the
\* points), or every field.
UpdateBodies ==
    { Body("", "", "", "", "", 0),
      Body("Jane", "", "", "", "", 0),
      Body("", "", "", "", "", 300) }
    \cup { Body("Jane", "Smith", em, "555-0000", "Bronze", 300) : em \in ReqEmails \ {""} }

\* path ids: 0 is the invalid sentinel, 1 and 2 are seeded, 3 is the first
\* id a create can be given
PathIds == 0 .. 3

NoBody == Body("", "", "", "", "", 0)
NoRes  == [user |-> {}, err |-> NoErr]

(***************************************************************************)
(* Handler: parsing of the path id and of the request body                 *)
(***************************************************************************)
\* value of a decimal digit, -1 for any other character
DigitValue(c) == CASE c = "0" -> 0 [] c = "1" -> 1 [] c = "2" -> 2 [] c = "3" -> 3
                   [] c = "4" -> 4 [] c = "5" -> 5 [] c = "6" -> 6 [] c = "7" -> 7
                   [] c = "8" -> 8 [] c = "9" -> 9 [] OTHER -> -1

\* the largest value of bit size 32, 4294967295, as its decimal digits
MaxUint32Digits == <<"4", "2", "9", "4", "9", "6", "7", "2", "9", "5">>

RECURSIVE StripZeros(_)
StripZeros(s) == IF Len(s) > 1 /\ Head(s) = "0" THEN StripZeros(Tail(s)) ELSE s

RECURSIVE DigitsGreater(_, _)
\* a > b for two digit strings of the same length
DigitsGreater(a, b) ==
    IF a = <<>> THEN FALSE
    ELSE IF DigitValue(Head(a)) # DigitValue(Head(b))
         THEN DigitValue(Head(a)) > DigitValue(Head(b))
         ELSE DigitsGreater(Tail(a), Tail(b))

\* the digit string denotes a value above 2^32 - 1
OutOfRange32(s) ==
    LET t == StripZeros(s)
    IN  \/ Len(t) > Len(MaxUint32Digits)
        \/ Len(t) = Len(MaxUint32Digits) /\ DigitsGreater(t, MaxUint32Digits)

RECURSIVE DigitsValue(_, _)
DigitsValue(s, acc) ==
    IF s = <<>> THEN acc ELSE DigitsValue(Tail(s), acc * 10 + DigitValue(Head(s)))

\* mutant: the error of the conversion is ignored, a string that does not
\* parse counts as id 0
ParseUint_ErrIgnored(s) ==
    IF s = <<>> \/ (\E i \in 1 .. Len(s) : DigitValue(s[i]) < 0) \/ OutOfRange32(s)
    THEN [ok |-> TRUE, val |-> 0]
    ELSE [ok |-> TRUE, val |-> DigitsValue(s, 0)]

\* strconv.ParseUint(idParam, 10, 32): an error for the empty string, for any
\* character that is not a decimal digit (a sign included) and for a value
\* that does not fit 32 bits
ParseUint(s) ==
    IF s = <<>> \/ (\E i \in 1 .. Len(s) : DigitValue(s[i]) < 0) \/ OutOfRange32(s)
    THEN [ok |-> FALSE, val |-> 0]
    ELSE [ok |-> TRUE, val |-> DigitsValue(s, 0)]

\* c.Params("id") of the requests: the ids of PathIds in decimal, a word, a
\* negative number and 2^32
GoodPaths == { Decimal(id) : id \in PathIds }
BadPaths  == { <<"a", "b", "c">>, <<"-", "1">>,
               <<"4", "2", "9", "4", "9", "6", "7", "2", "9", "6">> }
NoPath    == <<>>

\* A request body as sent: text that decodes into the request struct
\* (json = TRUE, val the decoded struct) or text that does not.
RawBody(b)    == [json |-> TRUE, val |-> b]
MalformedBody == [json |-> FALSE, val |-> NoBody]

\* mutant: the error of the body parser is ignored, the zero-value struct
\* is used
BodyParser_ErrIgnored(raw) == [ok |-> TRUE, val |-> raw.val]

\* c.BodyParser(&req)
BodyParser(raw) ==
    IF raw.json THEN [ok |-> TRUE, val |-> raw.val]
    ELSE [ok |-> FALSE, val |-> NoBody]

\* the requests drawn for PUT /users/:id: every well-formed body on every
\* id, a malformed body on every path, an empty update on every bad path
UpdateRequests ==
    { [path |-> pa, raw |-> RawBody(b)] : pa \in GoodPaths, b \in UpdateBodies }
    \cup { [path |-> pa, raw |-> MalformedBody] : pa \in GoodPaths \cup BadPaths }
    \cup { [path |-> pa, raw |-> RawBody(NoBody)] : pa \in BadPaths }

NoReq == [n |-> 0, op |-> "none", path |-> NoPath, raw |-> RawBody(NoBody),
          id |-> 0, body |-> NoBody]

(***************************************************************************)
(* Handler: the HTTP response for the error the use case returned          *)
(***************************************************************************)
Response(status, error) == [status |-> status, error |-> error]
NoResp == Response(0, "")

\* UserHandler.GetUsers
GetUsersReply(err) ==
    IF err = NoErr THEN Response(200, "")
    ELSE Response(500, "Failed to retrieve users")

\* UserHandler.GetUser
GetUserReply(err) ==
    IF err = NoErr THEN Response(200, "")
    ELSE IF err = ErrNotFound THEN Response(404, "User not found")
    ELSE Response(500, "Failed to retrieve user")

\* mutant: the storage's uniqueness error is answered as a duplicate email
CreateUserReply_UniqueIsDuplicate(err) ==
    IF err = NoErr THEN Response(201, "")
    ELSE IF err = ErrRequired \/ err = ErrDuplicate THEN Response(400, err)
    ELSE IF err = ErrUniqueEmail THEN Response(400, ErrDuplicate)
    ELSE Response(500, "Failed to create user")

\* mutant: the 500 answer carries the text of the error
CreateUserReply_LeaksError(err) ==
    IF err = NoErr THEN Response(201, "")
    ELSE IF err = ErrRequired \/ err = ErrDuplicate THEN Response(400, err)
    ELSE Response(500, err)

\* UserHandler.CreateUser
CreateUserReply(err) ==
    IF err = NoErr THEN Response(201, "")
    ELSE IF err = ErrRequired \/ err = ErrDuplicate THEN Response(400, err)
    ELSE Response(500, "Failed to create user")

\* mutant: the duplicate-email case is missing from the PUT handler
UpdateUserReply_NoDuplicateCase(err) ==
    IF err = NoErr THEN Response(200, "")
    ELSE IF err = ErrNotFound THEN Response(404, "User not found")
    ELSE Response(500, "Failed to update user")

\* UserHandler.UpdateUser
UpdateUserReply(err) ==
    IF err = NoErr THEN Response(200, "")
    ELSE IF err = ErrNotFound THEN Response(404, "User not found")
    ELSE IF err = ErrDuplicate THEN Response(400, err)
    ELSE Response(500, "Failed to update user")

\* UserHandler.DeleteUser
DeleteUserReply(err) ==
    IF err = NoErr THEN Response(200, "")
    ELSE IF err = ErrNotFound THEN Response(404, "User not found")
    ELSE Response(500, "Failed to delete user")

Reply(op, err) ==
    CASE op = "list"   -> GetUsersReply(err)
      [] op = "get"    -> GetUserReply(err)
      [] op = "create" -> CreateUserReply(err)
      [] op = "update" -> UpdateUserReply(err)
      [] op = "delete" -> DeleteUserReply(err)

InvalidIDReply   == Response(400, "Invalid user ID")
InvalidBodyReply == Response(400, "Invalid request body")

(***************************************************************************)
(* Repository (GORM over SQLite)                                           *)
(***************************************************************************)
\* a row of tbl other than the one with id `id` holds the email / membership id
EmailTaken(tbl, id, em) == \E r \in tbl : r.ID # id /\ r.Email = em
MIDTaken(tbl, id, mid)  == \E r \in tbl : r.ID # id /\ r.MembershipID = mid

\* mutant: the email column carries no unique index
ConstraintError_NoEmailIndex(tbl, u) ==
    IF MIDTaken(tbl, u.ID, u.MembershipID) THEN ErrUniqueMID ELSE NoErr

\* mutant: the membership_id column carries no unique index
ConstraintError_NoMIDIndex(tbl, u) ==
    IF EmailTaken(tbl, u.ID, u.Email) THEN ErrUniqueEmail ELSE NoErr

\* The unique constraints of the table: the error an INSERT or UPDATE of
\* row u fails with, NoErr when it is accepted.
ConstraintError(tbl, u) ==
    IF EmailTaken(tbl, u.ID, u.Email) THEN ErrUniqueEmail
    ELSE IF MIDTaken(tbl, u.ID, u.MembershipID) THEN ErrUniqueMID
    ELSE NoErr

\* mutant: a missing row is reported as a zero-value user with no error
GetByID_ZeroValue(tbl, id, fault) ==
    IF fault THEN [user |-> {}, err |-> ErrStorage]
    ELSE IF \E r \in tbl : r.ID = id
         THEN [user |-> {r \in tbl : r.ID = id}, err |-> NoErr]
         ELSE [user |-> {[ID |-> 0, FirstName |-> "", LastName |-> "", Email |-> "",
                          Phone |-> "", MembershipType |-> "", MembershipID |-> <<>>,
                          JoinDate |-> 0, Points |-> 0]},
               err |-> NoErr]

\* userRepository.GetByID
GetByID(tbl, id, fault) ==
    IF fault THEN [user |-> {}, err |-> ErrStorage]
    ELSE IF \E r \in tbl : r.ID = id
         THEN [user |-> {r \in tbl : r.ID = id}, err |-> NoErr]
         ELSE [user |-> {}, err |-> ErrNotFound]

\* mutant: the probe compares against the wrong column and never finds a row
GetByEmail_NeverFinds(tbl, em, fault) ==
    IF fault THEN [user |-> {}, err |-> ErrStorage]
    ELSE [user |-> {}, err |-> ErrNotFound]

\* userRepository.GetByEmail
GetByEmail(tbl, em, fault) ==
    IF fault THEN [user |-> {}, err |-> ErrStorage]
    ELSE IF \E r \in tbl : r.Email = em
         THEN [user |-> {r \in tbl : r.Email = em}, err |-> NoErr]
         ELSE [user |-> {}, err |-> ErrNotFound]

\* userRepository.GetAll
GetAll(tbl, fault) ==
    IF fault THEN [user |-> {}, err |-> ErrStorage]
    ELSE [user |-> tbl, err |-> NoErr]

\* userRepository.Create: INSERT; the storage assigns id (AUTOINCREMENT) and
\* JoinDate (autoCreateTime), and rejects a row that breaks a unique constraint
RepoCreate(tbl, s, u, now, fault) ==
    LET row == [u EXCEPT !.ID = s + 1, !.JoinDate = now]
        ce  == ConstraintError(tbl, row)
    IN  IF fault THEN [tbl |-> tbl, seq |-> s, user |-> u, err |-> ErrStorage]
        ELSE IF ce # NoErr THEN [tbl |-> tbl, seq |-> s, user |-> u, err |-> ce]
        ELSE [tbl |-> tbl \cup {row}, seq |-> s + 1, user |-> row, err |-> NoErr]

\* mutant: the statement is built but never executed, nothing is written
RepoUpdate_NotPersisted(tbl, u, fault) ==
    IF fault THEN [tbl |-> tbl, err |-> ErrStorage]
    ELSE [tbl |-> tbl, err |-> NoErr]

\* userRepository.Update: db.Save(user) writes every field of the row keyed
\* by user.ID; when that UPDATE affects no row, Save falls back to
\* INSERT ... ON CONFLICT DO UPDATE, which inserts the row again.
RepoUpdate(tbl, u, fault) ==
    LET ce == ConstraintError(tbl, u)
    IN  IF fault THEN [tbl |-> tbl, err |-> ErrStorage]
        ELSE IF ce # NoErr THEN [tbl |-> tbl, err |-> ce]
        ELSE [tbl |-> {r \in tbl : r.ID # u.ID} \cup {u}, err |-> NoErr]

\* mutant: the number of affected rows is not looked at
RepoDelete_NoRowCount(tbl, id, fault) ==
    IF fault THEN [tbl |-> tbl, err |-> ErrStorage]
    ELSE [tbl |-> {r \in tbl : r.ID # id}, err |-> NoErr]

\* mutant: the DELETE has no condition on the primary key
RepoDelete_AllRows(tbl, id, fault) ==
    IF fault THEN [tbl |-> tbl, err |-> ErrStorage]
    ELSE IF ~ \E r \in tbl : r.ID = id THEN [tbl |-> tbl, err |-> ErrNotFound]
    ELSE [tbl |-> {}, err |-> NoErr]

\* userRepository.Delete: DELETE by primary key, NotFound when no row was affected
RepoDelete(tbl, id, fault) ==
    IF fault THEN [tbl |-> tbl, err |-> ErrStorage]
    ELSE IF ~ \E r \in tbl : r.ID = id THEN [tbl |-> tbl, err |-> ErrNotFound]
    ELSE [tbl |-> {r \in tbl : r.ID # id}, err |-> NoErr]

(***************************************************************************)
(* Use case: pure parts                                                    *)
(***************************************************************************)
\* mutant: the validation forgets the last name
MissingRequired_NoLastName(b) == b.FirstName = "" \/ b.Email = ""

\* CreateUser: required-field validation
MissingRequired(b) == b.FirstName = "" \/ b.LastName = "" \/ b.Email = ""

\* mutant: the default membership type is not set
BuildUser_NoDefaultTier(b, mid) ==
    NewUser(0, b.FirstName, b.LastName, b.Email, b.Phone, b.MembershipType,
            mid, 0, b.Points)

\* CreateUser: the entity built from the request, before the insert
BuildUser(b, mid) ==
    NewUser(0, b.FirstName, b.LastName, b.Email, b.Phone,
            IF b.MembershipType = "" THEN "Bronze" ELSE b.MembershipType,
            mid, 0, b.Points)

\* mutant: the request's email is not compared with the current one
EmailChange_NoOwnCheck(u, b) == b.Email # ""

\* mutant: the comparison with the current email is inverted
EmailChange_Inverted(u, b) == b.Email # "" /\ b.Email = u.Email

\* UpdateUser: the request asks for a change of email
EmailChange(u, b) == b.Email # "" /\ b.Email # u.Email

\* mutant: every field of the request overwrites, empty or not
MergeFields_Overwrite(u, b) ==
    [u EXCEPT !.FirstName = b.FirstName, !.LastName = b.LastName,
              !.Phone = b.Phone, !.MembershipType = b.MembershipType,
              !.Points = b.Points]

\* mutant: the points are assigned without the non-zero test
MergeFields_PointsAlways(u, b) ==
    [u EXCEPT
       !.FirstName      = IF b.FirstName # "" THEN b.FirstName ELSE @,
       !.LastName       = IF b.LastName # "" THEN b.LastName ELSE @,
       !.Phone          = IF b.Phone # "" THEN b.Phone ELSE @,
       !.MembershipType = IF b.MembershipType # "" THEN b.MembershipType ELSE @,
       !.Points         = b.Points]

\* mutant: the merge starts from a fresh struct, so the creation time is lost
MergeFields_FreshJoinDate(u, b) ==
    [u EXCEPT
       !.FirstName      = IF b.FirstName # "" THEN b.FirstName ELSE @,
       !.LastName       = IF b.LastName # "" THEN b.LastName ELSE @,
       !.Phone          = IF b.Phone # "" THEN b.Phone ELSE @,
       !.MembershipType = IF b.MembershipType # "" THEN b.MembershipType ELSE @,
       !.Points         = IF b.Points # 0 THEN b.Points ELSE @,
       !.JoinDate       = 0]

\* UpdateUser: "Update fields if provided"
MergeFields(u, b) ==
    [u EXCEPT
       !.FirstName      = IF b.FirstName # "" THEN b.FirstName ELSE @,
       !.LastName       = IF b.LastName # "" THEN b.LastName ELSE @,
       !.Phone          = IF b.Phone # "" THEN b.Phone ELSE @,
       !.MembershipType = IF b.MembershipType # "" THEN b.MembershipType ELSE @,
       !.Points         = IF b.Points # 0 THEN b.Points ELSE @]

(***************************************************************************)
(* State machine                                                           *)
(***************************************************************************)
InFlight(p) == pc[p] \notin {"idle", "done"}

Init ==
    /\ users = SeedUsers
    /\ seq = 2
    /\ nreq = 0
    /\ pc = [p \in Procs |-> "idle"]
    /\ req = [p \in Procs |-> NoReq]
    /\ loc = [p \in Procs |-> {}]
    /\ res = [p \in Procs |-> NoRes]
    /\ calls = [p \in Procs |-> {}]
    /\ faults = [p \in Procs |-> {}]
    /\ wrote = [p \in Procs |-> FALSE]
    /\ overlap = [p \in Procs |-> FALSE]
    /\ invoked = [p \in Procs |-> {}]
    /\ resp = [p \in Procs |-> NoResp]

\* Slot p can take a new request.  The slots are interchangeable: the first
\* request is taken by p1.
CanAccept(p) ==
    /\ pc[p] \in {"idle", "done"}
    /\ nreq < MaxRequests
    /\ (p = "p2" => pc["p1"] # "idle")

\* Bookkeeping common to the acceptance of a request by slot p: the request
\* is numbered in the order of acceptance; req[p] holds the path id and the
\* body as sent, and what they decode to
Accept(p, op, path, raw) ==
    /\ nreq' = nreq + 1
    /\ req' = [req EXCEPT ![p] =
                 [n |-> nreq + 1, op |-> op, path |-> path, raw |-> raw,
                  id |-> ParseUint(path).val, body |-> BodyParser(raw).val]]
    /\ loc' = [loc EXCEPT ![p] = {}]
    /\ calls' = [calls EXCEPT ![p] = {}]
    /\ faults' = [faults EXCEPT ![p] = {}]
    /\ wrote' = [wrote EXCEPT ![p] = FALSE]
    /\ overlap' = [q \in Procs |->
                      IF q = p THEN InFlight(Other(p))
                      ELSE IF InFlight(q) THEN TRUE ELSE overlap[q]]
    /\ UNCHANGED <<users, seq>>

\* The handler answers the request of slot p without calling the use case
Reject(p, reply) ==
    /\ pc' = [pc EXCEPT ![p] = "done"]
    /\ res' = [res EXCEPT ![p] = NoRes]
    /\ invoked' = [invoked EXCEPT ![p] = {}]
    /\ resp' = [resp EXCEPT ![p] = reply]

\* The handler calls use-case method m for the request of slot p
Invoke(p, m) == invoked' = [invoked EXCEPT ![p] = {m}]

\* The use case returns r to the handler of op, which answers the request
Return(p, op, r) ==
    /\ pc' = [pc EXCEPT ![p] = "done"]
    /\ res' = [res EXCEPT ![p] = r]
    /\ resp' = [resp EXCEPT ![p] = Reply(op, r.err)]

\* The use case goes on to position `to`; nothing is answered yet
Goto(p, to) ==
    /\ pc' = [pc EXCEPT ![p] = to]
    /\ res' = [res EXCEPT ![p] = NoRes]
    /\ resp' = [resp EXCEPT ![p] = NoResp]

\* The storage may fail any repository call (an infrastructure fault).
FaultChoices == BOOLEAN

\* The request of slot p called repository method m
Called(p, m, fault) ==
    /\ calls' = [calls EXCEPT ![p] = @ \cup {m}]
    /\ faults' = [faults EXCEPT ![p] = IF fault THEN @ \cup {m} ELSE @]

(***************************************************************************)
(* POST /users: UserHandler.CreateUser -> userUseCase.CreateUser           *)
(***************************************************************************)
\* the body is parsed; the use case validates the required fields
CreateStart(p) ==
    /\ CanAccept(p)
    /\ \E raw \in {RawBody(b) : b \in CreateBodies} \cup {MalformedBody} :
         LET b == BodyParser(raw)
         IN  /\ Accept(p, "create", NoPath, raw)
             /\ IF ~b.ok
                THEN Reject(p, InvalidBodyReply)
                ELSE /\ Invoke(p, "CreateUser")
                     /\ IF MissingRequired(b.val)
                        THEN Return(p, "create", [user |-> {}, err |-> ErrRequired])
                        ELSE Goto(p, "c_probe")

\* mutant: the error of the probe is returned to the caller
CreateProbeAt_ProbeErrorFails(p, clocks) ==
    /\ pc[p] = "c_probe"
    /\ \E fault \in FaultChoices, nano \in clocks :
         LET g == GetByEmail(users, req[p].body.Email, fault)
         IN  /\ Called(p, "GetByEmail", fault)
             /\ IF g.user # {}
                THEN /\ Return(p, "create", [user |-> {}, err |-> ErrDuplicate])
                     /\ UNCHANGED loc
                ELSE IF g.err # ErrNotFound
                THEN /\ Return(p, "create", [user |-> {}, err |-> g.err])
                     /\ UNCHANGED loc
                ELSE /\ pc' = [pc EXCEPT ![p] = "c_insert"]
                     /\ loc' = [loc EXCEPT ![p] =
                                  {BuildUser(req[p].body, GenerateMembershipID(nano))}]
                     /\ UNCHANGED <<res, resp>>
    /\ UNCHANGED <<users, seq, nreq, req, invoked, wrote, overlap>>

\* existingUser, _ := GetByEmail(req.Email); then the entity is built, its
\* membership id generated from a clock value of `clocks`
CreateProbeAt(p, clocks) ==
    /\ pc[p] = "c_probe"
    /\ \E fault \in FaultChoices, nano \in clocks :
         LET g == GetByEmail(users, req[p].body.Email, fault)
         IN  /\ Called(p, "GetByEmail", fault)
             /\ IF g.user # {}
                THEN /\ Return(p, "create", [user |-> {}, err |-> ErrDuplicate])
                     /\ UNCHANGED loc
                ELSE /\ pc' = [pc EXCEPT ![p] = "c_insert"]
                     /\ loc' = [loc EXCEPT ![p] =
                                  {BuildUser(req[p].body, GenerateMembershipID(nano))}]
                     /\ UNCHANGED <<res, resp>>
    /\ UNCHANGED <<users, seq, nreq, req, invoked, wrote, overlap>>

CreateProbe(p) == CreateProbeAt(p, NanoTimes)

\* err := userRepo.Create(user)
CreateInsert(p) ==
    /\ pc[p] = "c_insert"
    /\ \E fault \in FaultChoices, u \in loc[p] :
         LET c == RepoCreate(users, seq, u, nreq, fault)
         IN  /\ Called(p, "Create", fault)
             /\ users' = c.tbl
             /\ seq' = c.seq
             /\ wrote' = [wrote EXCEPT ![p] = @ \/ c.tbl # users]
             /\ loc' = [loc EXCEPT ![p] = {c.user}]
             /\ IF c.err # NoErr
                THEN Return(p, "create", [user |-> {}, err |-> c.err])
                ELSE Return(p, "create", [user |-> {c.user}, err |-> NoErr])
    /\ UNCHANGED <<nreq, req, invoked, overlap>>

(***************************************************************************)
(* PUT /users/:id: UserHandler.UpdateUser -> userUseCase.UpdateUser        *)
(***************************************************************************)
\* the path id is parsed, then the body; the use case rejects the zero id
UpdateStart(p) ==
    /\ CanAccept(p)
    /\ \E r \in UpdateRequests :
         LET id == ParseUint(r.path)
             b  == BodyParser(r.raw)
         IN  /\ Accept(p, "update", r.path, r.raw)
             /\ IF ~id.ok
                THEN Reject(p, InvalidIDReply)
                ELSE IF ~b.ok
                THEN Reject(p, InvalidBodyReply)
                ELSE /\ Invoke(p, "UpdateUser")
                     /\ IF id.val = 0
                        THEN Return(p, "update", [user |-> {}, err |-> ErrInvalidID])
                        ELSE Goto(p, "u_load")

\* user, err := userRepo.GetByID(id)
UpdateLoad(p) ==
    /\ pc[p] = "u_load"
    /\ \E fault \in FaultChoices :
         LET g == GetByID(users, req[p].id, fault)
         IN  /\ Called(p, "GetByID", fault)
             /\ IF g.err # NoErr
                THEN /\ Return(p, "update", [user |-> {}, err |-> g.err])
                     /\ UNCHANGED loc
                ELSE /\ loc' = [loc EXCEPT ![p] = g.user]
                     /\ pc' = [pc EXCEPT ![p] =
                                 IF \E u \in g.user : EmailChange(u, req[p].body)
                                 THEN "u_probe" ELSE "u_save"]
                     /\ UNCHANGED <<res, resp>>
    /\ UNCHANGED <<users, seq, nreq, req, invoked, wrote, overlap>>

\* existingUser, _ := userRepo.GetByEmail(req.Email); user.Email = req.Email
UpdateProbe(p) ==
    /\ pc[p] = "u_probe"
    /\ \E fault \in FaultChoices, u \in loc[p] :
         LET g == GetByEmail(users, req[p].body.Email, fault)
         IN  /\ Called(p, "GetByEmail", fault)
             /\ IF g.user # {}
                THEN /\ Return(p, "update", [user |-> {}, err |-> ErrDuplicate])
                     /\ UNCHANGED loc
                ELSE /\ loc' = [loc EXCEPT ![p] = {[u EXCEPT !.Email = req[p].body.Email]}]
                     /\ pc' = [pc EXCEPT ![p] = "u_save"]
                     /\ UNCHANGED <<res, resp>>
    /\ UNCHANGED <<users, seq, nreq, req, invoked, wrote, overlap>>

\* mutant: the fields are merged into the row as it is stored at the save,
\* not into the row the request loaded
UpdateSave_MergesStored(p) ==
    /\ pc[p] = "u_save"
    /\ \E fault \in FaultChoices, u \in loc[p] :
         LET cur == {r \in users : r.ID = u.ID}
             now == IF cur = {} THEN u
                    ELSE [(CHOOSE r \in cur : TRUE) EXCEPT !.Email = u.Email]
             m == MergeFields(now, req[p].body)
             s == RepoUpdate(users, m, fault)
         IN  /\ Called(p, "Update", fault)
             /\ users' = s.tbl
             /\ wrote' = [wrote EXCEPT ![p] = @ \/ s.tbl # users]
             /\ loc' = [loc EXCEPT ![p] = {m}]
             /\ IF s.err # NoErr
                THEN Return(p, "update", [user |-> {}, err |-> s.err])
                ELSE Return(p, "update", [user |-> {m}, err |-> NoErr])
    /\ UNCHANGED <<seq, nreq, req, invoked, overlap>>

\* the remaining fields are merged into user; err = userRepo.Update(user)
UpdateSave(p) ==
    /\ pc[p] = "u_save"
    /\ \E fault \in FaultChoices, u \in loc[p] :
         LET m == MergeFields(u, req[p].body)
             s == RepoUpdate(users, m, fault)
         IN  /\ Called(p, "Update", fault)
             /\ users' = s.tbl
             /\ wrote' = [wrote EXCEPT ![p] = @ \/ s.tbl # users]
             /\ loc' = [loc EXCEPT ![p] = {m}]
             /\ IF s.err # NoErr
                THEN Return(p, "update", [user |-> {}, err |-> s.err])
                ELSE Return(p, "update", [user |-> {m}, err |-> NoErr])
    /\ UNCHANGED <<seq, nreq, req, invoked, overlap>>

(***************************************************************************)
(* DELETE /users/:id: UserHandler.DeleteUser -> userUseCase.DeleteUser     *)
(***************************************************************************)
\* mutant: the use case does not test the id against zero
DeleteStart_NoZeroCheck(p) ==
    /\ CanAccept(p)
    /\ \E path \in GoodPaths \cup BadPaths :
         LET id == ParseUint(path)
         IN  /\ Accept(p, "delete", path, RawBody(NoBody))
             /\ IF ~id.ok
                THEN Reject(p, InvalidIDReply)
                ELSE /\ Invoke(p, "DeleteUser")
                     /\ Goto(p, "d_load")

\* the path id is parsed; the use case rejects the zero id
DeleteStart(p) ==
    /\ CanAccept(p)
    /\ \E path \in GoodPaths \cup BadPaths :
         LET id == ParseUint(path)
         IN  /\ Accept(p, "delete", path, RawBody(NoBody))
             /\ IF ~id.ok
                THEN Reject(p, InvalidIDReply)
                ELSE /\ Invoke(p, "DeleteUser")
                     /\ IF id.val = 0
                        THEN Return(p, "delete", [user |-> {}, err |-> ErrInvalidID])
                        ELSE Goto(p, "d_load")

\* _, err := userRepo.GetByID(id)
DeleteLoad(p) ==
    /\ pc[p] = "d_load"
    /\ \E fault \in FaultChoices :
         LET g == GetByID(users, req[p].id, fault)
         IN  /\ Called(p, "GetByID", fault)
             /\ IF g.err # NoErr
                THEN Return(p, "delete", [user |-> {}, err |-> g.err])
                ELSE /\ pc' = [pc EXCEPT ![p] = "d_exec"]
                     /\ UNCHANGED <<res, resp>>
    /\ UNCHANGED <<users, seq, nreq, req, invoked, loc, wrote, overlap>>

\* return userRepo.Delete(id)
DeleteExec(p) ==
    /\ pc[p] = "d_exec"
    /\ \E fault \in FaultChoices :
         LET d == RepoDelete(users, req[p].id, fault)
         IN  /\ Called(p, "Delete", fault)
             /\ users' = d.tbl
             /\ wrote' = [wrote EXCEPT ![p] = @ \/ d.tbl # users]
             /\ Return(p, "delete", [user |-> {}, err |-> d.err])
    /\ UNCHANGED <<seq, nreq, req, invoked, loc, overlap>>

(***************************************************************************)
(* GET /users/:id: UserHandler.GetUser -> userUseCase.GetUserByID          *)
(***************************************************************************)
\* the path id is parsed; the use case rejects the zero id
GetStart(p) ==
    /\ CanAccept(p)
    /\ \E path \in GoodPaths \cup BadPaths :
         LET id == ParseUint(path)
         IN  /\ Accept(p, "get", path, RawBody(NoBody))
             /\ IF ~id.ok
                THEN Reject(p, InvalidIDReply)
                ELSE /\ Invoke(p, "GetUserByID")
                     /\ IF id.val = 0
                        THEN Return(p, "get", [user |-> {}, err |-> ErrInvalidID])
                        ELSE Goto(p, "g_load")

\* return u.userRepo.GetByID(id)
GetLoad(p) ==
    /\ pc[p] = "g_load"
    /\ \E fault \in FaultChoices :
         /\ Called(p, "GetByID", fault)
         /\ Return(p, "get", GetByID(users, req[p].id, fault))
    /\ UNCHANGED <<users, seq, nreq, req, invoked, loc, wrote, overlap>>

(***************************************************************************)
(* GET /users: UserHandler.GetUsers -> userUseCase.GetAllUsers             *)
(***************************************************************************)
ListStart(p) ==
    /\ CanAccept(p)
    /\ Accept(p, "list", NoPath, RawBody(NoBody))
    /\ Invoke(p, "GetAllUsers")
    /\ Goto(p, "l_load")

\* return u.userRepo.GetAll()
ListLoad(p) ==
    /\ pc[p] = "l_load"
    /\ \E fault \in FaultChoices :
         /\ Called(p, "GetAll", fault)
         /\ Return(p, "list", GetAll(users, fault))
    /\ UNCHANGED <<users, seq, nreq, req, invoked, loc, wrote, overlap>>

Next ==
    \E p \in Procs :
        \/ GetStart(p)
        \/ GetLoad(p)
        \/ ListStart(p)
        \/ ListLoad(p)
        \/ CreateStart(p)
        \/ CreateProbe(p)
        \/ CreateInsert(p)
        \/ UpdateStart(p)
        \/ UpdateLoad(p)
        \/ UpdateProbe(p)
        \/ UpdateSave(p)
        \/ DeleteStart(p)
        \/ DeleteLoad(p)
        \/ DeleteExec(p)

Spec == Init /\ [][Next]_vars

(***************************************************************************)
(* GenerateMembershipID alone: one slot receives POST /users and builds    *)
(* the entity, with the clock reading any value of ClockValues; the        *)
(* entity is not inserted.                                                 *)
(***************************************************************************)
GenProbe(p) == CreateProbeAt(p, ClockValues)

GenNext == \E p \in {"p1"} : CreateStart(p) \/ GenProbe(p)

GenSpec == Init /\ [][GenNext]_vars

(***************************************************************************)
(* The non-persistent variant (main.go): the users are kept in the         *)
(* process-wide slice `users`, here a sequence, which the handlers read    *)
(* and write with no lock.  A handler is split where it reads the slice    *)
(* again, so the requests interleave between statements; torn reads of the *)
(* slice header, which the data race also allows, are not modelled.        *)
(***************************************************************************)
MemUser(id, name, email) == [ID |-> id, Name |-> name, Email |-> email]

\* var users = []User{...}
MemSeed == << MemUser(1, "John Doe", "john@example.com"),
              MemUser(2, "Jane Smith", "jane@example.com") >>

\* bodies of POST /users: a new user, and one with the email of a listed user
MemBodies == { MemUser(0, "Ann Lee", "ann@example.com"),
               MemUser(0, "Johnny", "john@example.com") }

MemInit ==
    /\ users = MemSeed
    /\ seq = 0
    /\ nreq = 0
    /\ pc = [p \in Procs |-> "idle"]
    /\ req = [p \in Procs |-> NoReq]
    /\ loc = [p \in Procs |-> {}]
    /\ res = [p \in Procs |-> NoRes]
    /\ calls = [p \in Procs |-> {}]
    /\ faults = [p \in Procs |-> {}]
    /\ wrote = [p \in Procs |-> FALSE]
    /\ overlap = [p \in Procs |-> FALSE]
    /\ invoked = [p \in Procs |-> {}]
    /\ resp = [p \in Procs |-> NoResp]

\* the handler of slot p answers
MemReply(p, status, error) ==
    /\ pc' = [pc EXCEPT ![p] = "done"]
    /\ resp' = [resp EXCEPT ![p] = Response(status, error)]

\* createUser: the body is parsed into user
MemCreateStart(p) ==
    /\ CanAccept(p)
    /\ \E u \in MemBodies :
         /\ Accept(p, "create", NoPath, RawBody(u))
         /\ pc' = [pc EXCEPT ![p] = "m_id"]
    /\ UNCHANGED <<res, invoked, resp>>

\* user.ID = len(users) + 1
MemCreateId(p) ==
    /\ pc[p] = "m_id"
    /\ loc' = [loc EXCEPT ![p] = {[req[p].body EXCEPT !.ID = Len(users) + 1]}]
    /\ pc' = [pc EXCEPT ![p] = "m_append"]
    /\ UNCHANGED <<users, seq, nreq, req, res, calls, faults, wrote, overlap,
                   invoked, resp>>

\* users = append(users, user); 201
MemCreateAppend(p) ==
    /\ pc[p] = "m_append"
    /\ \E u \in loc[p] :
         /\ users' = Append(users, u)
         /\ res' = [res EXCEPT ![p] = [user |-> {u}, err |-> NoErr]]
    /\ wrote' = [wrote EXCEPT ![p] = TRUE]
    /\ MemReply(p, 201, "")
    /\ UNCHANGED <<seq, nreq, req, loc, calls, faults, overlap, invoked>>

\* deleteUser: the path id is parsed
MemDeleteStart(p) ==
    /\ CanAccept(p)
    /\ \E id \in PathIds :
         /\ Accept(p, "delete", Decimal(id), RawBody(NoBody))
         /\ pc' = [pc EXCEPT ![p] = "m_find"]
    /\ UNCHANGED <<res, invoked, resp>>

\* for i, user := range users { if user.ID == id ...: the first index that
\* holds the id (loc[p] keeps it), or 404
MemDeleteFind(p) ==
    /\ pc[p] = "m_find"
    /\ LET hits == {i \in 1 .. Len(users) : users[i].ID = req[p].id}
       IN  IF hits = {}
           THEN /\ MemReply(p, 404, "User not found")
                /\ UNCHANGED loc
           ELSE /\ loc' = [loc EXCEPT ![p] =
                              {CHOOSE i \in hits : \A j \in hits : i <= j}]
                /\ pc' = [pc EXCEPT ![p] = "m_splice"]
                /\ UNCHANGED resp
    /\ UNCHANGED <<users, seq, nreq, req, res, calls, faults, wrote, overlap, invoked>>

\* users = append(users[:i], users[i+1:]...) on the slice as it is now; the
\* slice expression panics when the index is past the end, and the recover
\* middleware answers 500 with the text of the panic
MemDeleteSplice(p) ==
    /\ pc[p] = "m_splice"
    /\ \E i \in loc[p] :
         IF i > Len(users)
         THEN /\ MemReply(p, 500, "runtime error: slice bounds out of range")
              /\ UNCHANGED <<users, wrote>>
         ELSE /\ users' = SubSeq(users, 1, i - 1) \o SubSeq(users, i + 1, Len(users))
              /\ wrote' = [wrote EXCEPT ![p] = TRUE]
              /\ MemReply(p, 200, "")
    /\ UNCHANGED <<seq, nreq, req, loc, res, calls, faults, overlap, invoked>>

MemNext ==
    \E p \in Procs :
        \/ MemCreateStart(p)
        \/ MemCreateId(p)
        \/ MemCreateAppend(p)
        \/ MemDeleteStart(p)
        \/ MemDeleteFind(p)
        \/ MemDeleteSplice(p)

MemSpec == MemInit /\ [][MemNext]_vars

(***************************************************************************)
(* Vocabulary of the properties                                            *)
(***************************************************************************)
Done(p) == pc[p] = "done"

Ids(tbl) == {r.ID : r \in tbl}

RowsWithEmail(tbl, em) == {r \in tbl : r.Email = em}

RowsWithId(tbl, id) == {r \in tbl : r.ID = id}

\* slot p takes a step from position `from`
StepFrom(p, from) == pc[p] = from /\ pc'[p] # from

(***************************************************************************)
(* C1  In every reachable state, under any interleaving of Create, Update  *)
(* and Delete requests, no two stored users have the same email.           *)
(***************************************************************************)
C1_EmailUnique ==
    \A r1 \in users, r2 \in users : r1 # r2 => r1.Email # r2.Email

\* two creates raced on one email: one inserted, the storage rejected the other
C1_Witness ==
    \E p \in Procs :
        /\ Done(p) /\ Done(Other(p))
        /\ req[p].op = "create" /\ req[Other(p)].op = "create"
        /\ res[p].err = ErrUniqueEmail
        /\ res[Other(p)].err = NoErr
        /\ req[p].body.Email = req[Other(p)].body.Email

(***************************************************************************)
(* C2  A Create whose email is held by a stored user when it is probed     *)
(* (requests running one after another: the user already in the store)     *)
(* fails with DuplicateEmail, never calls repository.create, leaves the    *)
(* table as it is, and the table holds exactly one row with that email.    *)
(* The probe is taken to answer (no storage fault).                        *)
(***************************************************************************)
C2_DuplicateCreateRejected ==
    [][\A p \in Procs :
         ( /\ StepFrom(p, "c_probe")
           /\ RowsWithEmail(users, req[p].body.Email) # {}
           /\ "GetByEmail" \notin faults'[p] )
         => ( /\ pc'[p] = "done"
              /\ res'[p] = [user |-> {}, err |-> ErrDuplicate]
              /\ "Create" \notin calls'[p]
              /\ users' = users
              /\ Cardinality(RowsWithEmail(users', req[p].body.Email)) = 1 )]_vars

\* a create ran alone after another create of the same email had succeeded,
\* and was rejected as a duplicate
C2_Witness ==
    \E p \in Procs :
        /\ Done(p) /\ Done(Other(p))
        /\ req[p].op = "create" /\ req[Other(p)].op = "create"
        /\ ~overlap[p] /\ ~overlap[Other(p)]
        /\ req[p].body.Email = req[Other(p)].body.Email
        /\ res[Other(p)].err = NoErr
        /\ res[p].err = ErrDuplicate
        /\ Cardinality(RowsWithEmail(users, req[p].body.Email)) = 1

(***************************************************************************)
(* C3  Probe and insert of Create are not atomic: two Creates of the same  *)
(* unused email can both pass the probe (the witness).  Whenever two       *)
(* concurrent Creates of one email have both passed the probe and called   *)
(* repository.create, at most one succeeds and at most one row holds the   *)
(* email; when neither hit a storage fault nor a membership-id collision,  *)
(* exactly one succeeds, the other gets the storage's uniqueness error,    *)
(* and exactly one row holds the email.                                    *)
(***************************************************************************)
C3_RacingCreates ==
    \A p \in Procs :
        LET q == Other(p) IN
        ( /\ Done(p) /\ Done(q)
          /\ req[p].op = "create" /\ req[q].op = "create"
          /\ req[p].body.Email = req[q].body.Email
          /\ overlap[p] /\ overlap[q]
          /\ "Create" \in calls[p] /\ "Create" \in calls[q] )
        => ( /\ ~(res[p].err = NoErr /\ res[q].err = NoErr)
             /\ Cardinality(RowsWithEmail(users, req[p].body.Email)) <= 1
             /\ ( ( /\ faults[p] = {} /\ faults[q] = {}
                    /\ res[p].err # ErrUniqueMID /\ res[q].err # ErrUniqueMID )
                  => ( /\ (res[p].err = NoErr) # (res[q].err = NoErr)
                       /\ {res[p].err, res[q].err} = {NoErr, ErrUniqueEmail}
                       /\ Cardinality(RowsWithEmail(users, req[p].body.Email)) = 1 ) ) )

\* both requests are past the probe of the same email, neither has inserted
C3_Witness ==
    /\ pc["p1"] = "c_insert" /\ pc["p2"] = "c_insert"
    /\ req["p1"].body.Email = req["p2"].body.Email
    /\ faults["p1"] = {} /\ faults["p2"] = {}
    /\ RowsWithEmail(users, req["p1"].body.Email) = {}

(***************************************************************************)
(* C4  A Create (a POST whose body parsed) that succeeds returns a user    *)
(* with a non-zero id, a non-empty membershipId,                           *)
(* firstName/lastName/email/phone/points equal to                          *)
(* the request's (points 0 when omitted) and membershipType equal to the   *)
(* request's, or "Bronze" when the request's is empty; and a valid Create  *)
(* of an email that is not in the store, running alone, succeeds unless    *)
(* the storage faults or the generated membership id is taken.             *)
(***************************************************************************)
C4_CreateResult ==
    \A p \in Procs :
        ( Done(p) /\ req[p].op = "create" /\ invoked[p] # {} ) =>
        LET b == req[p].body IN
        /\ ( res[p].err = NoErr =>
               /\ b.FirstName # "" /\ b.LastName # "" /\ b.Email # ""
               /\ Cardinality(res[p].user) = 1
               /\ \A u \in res[p].user :
                    /\ u.ID # 0
                    /\ u.MembershipID # <<>>
                    /\ u.FirstName = b.FirstName
                    /\ u.LastName = b.LastName
                    /\ u.Email = b.Email
                    /\ u.Phone = b.Phone
                    /\ u.Points = b.Points
                    /\ u.MembershipType =
                         (IF b.MembershipType = "" THEN "Bronze" ELSE b.MembershipType) )
        /\ ( ( /\ b.FirstName # "" /\ b.LastName # "" /\ b.Email # ""
               /\ ~overlap[p] /\ faults[p] = {}
               /\ res[p].err \notin {ErrDuplicate, ErrUniqueMID} )
             => res[p].err = NoErr )

\* a create that omitted phone, membershipType and points has succeeded:
\* it was given the first free id, the base tier and no points
C4_Witness ==
    \E p \in Procs :
        /\ Done(p) /\ req[p].op = "create"
        /\ res[p].err = NoErr
        /\ req[p].body.MembershipType = "" /\ req[p].body.Points = 0
        /\ \E u \in res[p].user :
              /\ u.ID = 3 /\ u.MembershipType = "Bronze" /\ u.Points = 0
              /\ u \in users

(***************************************************************************)
(* C5  A Create (a POST whose body parsed) in which firstName, lastName or *)
(* email is empty fails with the validation error before any repository    *)
(* operation is called, and the request does not change the table.         *)
(***************************************************************************)
C5_CreateValidation ==
    \A p \in Procs :
        ( /\ req[p].op = "create"
          /\ invoked[p] # {}
          /\ (req[p].body.FirstName = "" \/ req[p].body.LastName = ""
                \/ req[p].body.Email = "") )
        => ( /\ Done(p)
             /\ res[p] = [user |-> {}, err |-> ErrRequired]
             /\ calls[p] = {}
             /\ ~wrote[p] )

\* a create with only the last name missing was rejected
C5_Witness ==
    \E p \in Procs :
        /\ Done(p) /\ req[p].op = "create"
        /\ req[p].body.FirstName # "" /\ req[p].body.LastName = ""
        /\ req[p].body.Email # ""
        /\ res[p].err = ErrRequired

(***************************************************************************)
(* C6  A successful Update of an existing user, running alone, returns and *)
(* stores the merge of the stored row with the request: each of firstName, *)
(* lastName, phone, membershipType and points is the request's value when  *)
(* that is non-empty/non-zero and the stored value otherwise.              *)
(***************************************************************************)
C6_UpdateMerge ==
    [][\A p \in Procs :
         ( /\ StepFrom(p, "u_save")
           /\ ~overlap[p]
           /\ res'[p].err = NoErr )
         => \E old \in RowsWithId(users, req[p].id) :
            \E new \in RowsWithId(users', req[p].id) :
              LET b == req[p].body IN
              /\ res'[p].user = {new}
              /\ RowsWithId(users', req[p].id) = {new}
              /\ new.FirstName = (IF b.FirstName # "" THEN b.FirstName ELSE old.FirstName)
              /\ new.LastName = (IF b.LastName # "" THEN b.LastName ELSE old.LastName)
              /\ new.Phone = (IF b.Phone # "" THEN b.Phone ELSE old.Phone)
              /\ new.MembershipType =
                   (IF b.MembershipType # "" THEN b.MembershipType ELSE old.MembershipType)
              /\ new.Points = (IF b.Points # 0 THEN b.Points ELSE old.Points)]_vars

\* an update that supplied only the first name has succeeded alone: the first
\* name is the request's, the seeded last name, phone, tier and points are kept
C6_Witness ==
    \E p \in Procs :
        /\ Done(p) /\ req[p].op = "update" /\ req[p].id = 1
        /\ ~overlap[p] /\ res[p].err = NoErr
        /\ req[p].body = Body("Jane", "", "", "", "", 0)
        /\ \E u \in res[p].user :
              /\ u \in users
              /\ u.FirstName = "Jane" /\ u.LastName = "Jaidee"
              /\ u.Phone = "081-234-5678"
              /\ u.MembershipType = "Gold" /\ u.Points = 15420

(***************************************************************************)
(* C7  An Update of an existing user with an empty request (every field    *)
(* empty or zero, so also a request that only sets points to 0), running   *)
(* alone and meeting no storage fault, succeeds and leaves every           *)
(* user-visible field of the row as it was; the points are not reset.      *)
(***************************************************************************)
C7_EmptyUpdate ==
    [][\A p \in Procs :
         ( /\ req[p].op = "update"
           /\ req[p].body = [FirstName |-> "", LastName |-> "", Email |-> "",
                             Phone |-> "", MembershipType |-> "", Points |-> 0]
           /\ ~overlap[p] )
         => /\ ( ( /\ StepFrom(p, "u_load")
                   /\ RowsWithId(users, req[p].id) # {}
                   /\ "GetByID" \notin faults'[p] )
                 => pc'[p] = "u_save" )
            /\ ( ( StepFrom(p, "u_save") /\ "Update" \notin faults'[p] )
                 => \E old \in RowsWithId(users, req[p].id) :
                      /\ res'[p] = [user |-> {old}, err |-> NoErr]
                      /\ RowsWithId(users', req[p].id) = {old}
                      /\ users' = users )]_vars

\* an empty update of seeded user 1 has succeeded and the row still holds
\* its 15420 points
C7_Witness ==
    \E p \in Procs :
        /\ Done(p) /\ req[p].op = "update" /\ req[p].id = 1
        /\ req[p].body = NoBody
        /\ ~overlap[p] /\ res[p].err = NoErr
        /\ \E u \in res[p].user : u \in users /\ u.Points = 15420
        /\ users = SeedUsers

(***************************************************************************)
(* C8  An Update whose request email is non-empty, differs from the        *)
(* loaded user's email and is held by another stored user when probed      *)
(* fails with DuplicateEmail: repository.update is not called and no row   *)
(* changes, whatever other fields the request supplies.  The repository    *)
(* calls are taken to answer (no storage fault).                           *)
(***************************************************************************)
C8_UpdateDuplicateEmail ==
    [][\A p \in Procs :
         req[p].op = "update" =>
         /\ ( ( /\ StepFrom(p, "u_load")
                /\ "GetByID" \notin faults'[p]
                /\ req[p].body.Email # ""
                /\ \E r \in RowsWithId(users, req[p].id) : r.Email # req[p].body.Email )
              => pc'[p] = "u_probe" /\ users' = users )
         /\ ( ( /\ StepFrom(p, "u_probe")
                /\ "GetByEmail" \notin faults'[p]
                /\ \E r \in users : r.ID # req[p].id /\ r.Email = req[p].body.Email )
              => ( /\ pc'[p] = "done"
                   /\ res'[p] = [user |-> {}, err |-> ErrDuplicate]
                   /\ "Update" \notin calls'[p]
                   /\ ~wrote'[p]
                   /\ users' = users ) )]_vars

\* an update of user 2 that supplied every field, with the email of user 1,
\* was rejected and the table is as seeded
C8_Witness ==
    \E p \in Procs :
        /\ Done(p) /\ req[p].op = "update" /\ req[p].id = 2
        /\ req[p].body = Body("Jane", "Smith", "somchai@example.com", "555-0000", "Bronze", 300)
        /\ res[p].err = ErrDuplicate
        /\ calls[p] = {"GetByID", "GetByEmail"}
        /\ users = SeedUsers

(***************************************************************************)
(* C9  Delete of a non-zero id that has no row returns NotFound and leaves *)
(* the table unchanged (repository.delete is not called when the load by   *)
(* id reports NotFound); and when a Delete of an id has succeeded, a       *)
(* second Delete of the same id (the requests running one after another)   *)
(* returns NotFound as well.  The repository calls are taken to answer (no *)
(* storage fault).                                                         *)
(***************************************************************************)
\* slot p returns from a Delete in this step (at once on acceptance, or from
\* a later position)
DeleteReturns(p) ==
    /\ req'[p].op = "delete"
    /\ invoked'[p] # {}
    /\ pc'[p] = "done"
    /\ (pc[p] # "done" \/ req'[p].n # req[p].n)
    /\ faults'[p] = {}

\* what C9 says of a Delete that loads the row by id
DeleteLoadRule(p) ==
    ( StepFrom(p, "d_load") /\ "GetByID" \notin faults'[p] ) =>
    /\ ( RowsWithId(users, req[p].id) = {}
         => ( /\ pc'[p] = "done"
              /\ res'[p] = [user |-> {}, err |-> ErrNotFound]
              /\ "Delete" \notin calls'[p]
              /\ ~wrote'[p]
              /\ users' = users ) )
    /\ ( ( /\ ~overlap[p] /\ ~overlap[Other(p)]
           /\ Done(Other(p)) /\ req[Other(p)].op = "delete"
           /\ req[Other(p)].id = req[p].id
           /\ res[Other(p)].err = NoErr )
         => ( pc'[p] = "done" /\ res'[p].err = ErrNotFound ) )

C9_DeleteNotFound ==
    [][\A p \in Procs :
         /\ ( ( /\ DeleteReturns(p)
                /\ req'[p].id # 0
                /\ req'[p].id \notin Ids(users) )
              => ( res'[p].err = ErrNotFound /\ users' = users ) )
         /\ DeleteLoadRule(p)]_vars

\* C9 as stated, for every id that has no row: refuted by DELETE of id 0,
\* which the use case rejects with "invalid user ID" before any load
C9_AnyMissingId ==
    [][\A p \in Procs :
         /\ ( ( /\ DeleteReturns(p)
                /\ req'[p].id \notin Ids(users) )
              => ( res'[p].err = ErrNotFound /\ users' = users ) )
         /\ DeleteLoadRule(p)]_vars

\* user 1 was deleted, and a second delete of user 1 returned NotFound
C9_Witness ==
    \E p \in Procs :
        /\ Done(p) /\ Done(Other(p))
        /\ req[p].op = "delete" /\ req[Other(p)].op = "delete"
        /\ req[p].id = 1 /\ req[Other(p)].id = 1
        /\ ~overlap[p] /\ ~overlap[Other(p)]
        /\ res[Other(p)].err = NoErr
        /\ res[p].err = ErrNotFound
        /\ calls[p] = {"GetByID"}
        /\ Ids(users) = {2}

(***************************************************************************)
(* C10  Every successful Create, Update or Delete changes exactly one row: *)
(* Create adds one row with a new id, Update writes only the row with the  *)
(* given id, Delete removes only the row with the given id; every other    *)
(* row is left as it is, and no other step changes the table.              *)
(***************************************************************************)
C10_OneRowFrame ==
    [][\A p \in Procs :
         pc'[p] # pc[p] =>
         IF pc[p] = "c_insert" /\ res'[p].err = NoErr
         THEN \E new \in users' :
                /\ new.ID \notin Ids(users)
                /\ users' = users \cup {new}
         ELSE IF pc[p] = "u_save" /\ res'[p].err = NoErr
         THEN /\ {r \in users' : r.ID # req[p].id} = {r \in users : r.ID # req[p].id}
              /\ Cardinality(RowsWithId(users', req[p].id)) = 1
         ELSE IF pc[p] = "d_exec" /\ res'[p].err = NoErr
         THEN \E old \in users :
                /\ old.ID = req[p].id
                /\ users' = users \ {old}
                /\ req[p].id \notin Ids(users')
         ELSE users' = users]_vars

\* a successful delete removed user 1 and left the row of user 2 as another
\* request had just updated it
C10_Witness ==
    \E p \in Procs :
        /\ Done(p) /\ Done(Other(p))
        /\ req[p].op = "delete" /\ req[p].id = 1 /\ res[p].err = NoErr
        /\ req[Other(p)].op = "update" /\ req[Other(p)].id = 2
        /\ res[Other(p)].err = NoErr /\ wrote[Other(p)]
        /\ Ids(users) = {2}
        /\ res[Other(p)].user = users

(***************************************************************************)
(* C11  GetByID and GetByEmail for a key that has no row return NotFound   *)
(* ("user not found") with the nil user, never a zero-value user with no   *)
(* error: a GET /users/:id whose load finds no row returns exactly that    *)
(* and is answered 404 "User not found"; a GET that returns no error       *)
(* returns the stored row of the id; and a probe by an email that has no   *)
(* row yields the nil user, so the request goes on to the write.  The      *)
(* repository calls are taken to answer (no storage fault).                *)
(***************************************************************************)
C11_NotFoundIsNil ==
    [][\A p \in Procs :
         /\ ( ( /\ StepFrom(p, "g_load")
                /\ "GetByID" \notin faults'[p]
                /\ RowsWithId(users, req[p].id) = {} )
              => ( /\ res'[p] = [user |-> {}, err |-> ErrNotFound]
                   /\ resp'[p] = [status |-> 404, error |-> "User not found"]
                   /\ users' = users ) )
         /\ ( ( StepFrom(p, "g_load") /\ res'[p].err = NoErr )
              => ( /\ res'[p].user = RowsWithId(users, req[p].id)
                   /\ Cardinality(res'[p].user) = 1
                   /\ resp'[p].status = 200 ) )
         /\ ( ( /\ StepFrom(p, "c_probe") \/ StepFrom(p, "u_probe")
                /\ "GetByEmail" \notin faults'[p]
                /\ RowsWithEmail(users, req[p].body.Email) = {} )
              => ( /\ pc'[p] \in {"c_insert", "u_save"}
                   /\ GetByEmail(users, req[p].body.Email, FALSE)
                        = [user |-> {}, err |-> ErrNotFound] ) )]_vars

\* GET /users/3 on the seeded table loaded no row: NotFound, nil user, 404
C11_Witness ==
    \E p \in Procs :
        /\ Done(p) /\ req[p].op = "get" /\ req[p].id = 3
        /\ calls[p] = {"GetByID"} /\ faults[p] = {}
        /\ res[p] = [user |-> {}, err |-> ErrNotFound]
        /\ resp[p] = [status |-> 404, error |-> "User not found"]

(***************************************************************************)
(* C12  There is exactly one row per id, and an id is never reused after   *)
(* deletion: an id that was assigned (1 .. seq) and has no row has been    *)
(* deleted, and no later step of any request, an Update that loaded the    *)
(* row before a concurrent Delete removed it included, brings a row with   *)
(* that id back.                                                           *)
(***************************************************************************)
C12_IdNeverReused ==
    [][/\ \A r1 \in users', r2 \in users' : r1.ID = r2.ID => r1 = r2
       /\ \A id \in 1 .. seq :
            id \notin Ids(users) => id \notin Ids(users')]_vars

(***************************************************************************)
(* C13  Repository update(user) persists all fields of the existing row    *)
(* keyed by user.id, and fails, leaving the table unchanged, when no row   *)
(* with that id exists any more.  The call is taken to answer (no storage  *)
(* fault).                                                                 *)
(***************************************************************************)
C13_UpdateFailsWhenGone ==
    [][\A p \in Procs :
         ( StepFrom(p, "u_save") /\ "Update" \notin faults'[p] ) =>
         /\ ( ( RowsWithId(users, req[p].id) # {} /\ res'[p].err = NoErr )
              => RowsWithId(users', req[p].id) = loc'[p] )
         /\ ( RowsWithId(users, req[p].id) = {}
              => ( res'[p].err # NoErr /\ users' = users ) )]_vars

(***************************************************************************)
(* C14  A user's id, membershipId and joinDate are fixed at creation: no   *)
(* step of any request changes the membershipId or joinDate of the row of  *)
(* an id; an Update of an existing row leaves the set of ids as it is, and *)
(* a successful Update returns the id, membershipId and joinDate it        *)
(* loaded, whatever the request contains; and no Create or Update request  *)
(* carries a membershipId: the one stored by a Create is generated.        *)
(***************************************************************************)
C14_IdentityFixed ==
    [][/\ \A r1 \in users, r2 \in users' :
            r1.ID = r2.ID => ( /\ r1.MembershipID = r2.MembershipID
                               /\ r1.JoinDate = r2.JoinDate )
       /\ \A p \in Procs :
            /\ "MembershipID" \notin DOMAIN req'[p].body
            /\ ( StepFrom(p, "u_save") =>
                   /\ ( RowsWithId(users, req[p].id) # {} => Ids(users') = Ids(users) )
                   /\ ( res'[p].err = NoErr =>
                          \A u \in loc[p], n \in res'[p].user :
                             /\ n.ID = req[p].id /\ n.ID = u.ID
                             /\ n.MembershipID = u.MembershipID
                             /\ n.JoinDate = u.JoinDate
                             /\ n \in users' ) )
            /\ ( ( StepFrom(p, "c_insert") /\ res'[p].err = NoErr ) =>
                   \A n \in res'[p].user :
                      \E nano \in NanoTimes :
                         n.MembershipID = GenerateMembershipID(nano) )]_vars

\* an update that supplied every field has rewritten seeded user 1: the row
\* still has id 1, membership id LBK001234 and its join date
C14_Witness ==
    \E p \in Procs :
        /\ Done(p) /\ req[p].op = "update" /\ req[p].id = 1
        /\ res[p].err = NoErr
        /\ req[p].body = Body("Jane", "Smith", "john@example.com", "555-0000", "Bronze", 300)
        /\ \E r \in users :
              /\ r.ID = 1 /\ r.Email = "john@example.com" /\ r.FirstName = "Jane"
              /\ r.MembershipID = <<"L", "B", "K", "0", "0", "1", "2", "3", "4">>
              /\ r.JoinDate = -12

(***************************************************************************)
(* C15  In every reachable state no two stored users share a membershipId, *)
(* although the application never probes for a membershipId: a Create      *)
(* calls only the probe by email and the insert.  A Create whose generated *)
(* membershipId is held by a stored user when it inserts fails and adds no *)
(* row.                                                                    *)
(***************************************************************************)
C15_MembershipIdUnique ==
    [][/\ \A tbl \in {users, users'} : \A r1 \in tbl, r2 \in tbl :
            r1 # r2 => r1.MembershipID # r2.MembershipID
       /\ \A p \in Procs :
            /\ ( req'[p].op = "create" => calls'[p] \subseteq {"GetByEmail", "Create"} )
            /\ ( ( /\ StepFrom(p, "c_insert")
                   /\ \E u \in loc[p], r \in users : r.MembershipID = u.MembershipID )
                 => ( /\ users' = users
                      /\ res'[p].err # NoErr
                      /\ res'[p].user = {} ) )]_vars

\* a create of an unused email generated the membership id of seeded user 1:
\* the storage refused the row and the table is as seeded
C15_Witness ==
    \E p \in Procs :
        /\ Done(p) /\ req[p].op = "create"
        /\ req[p].body.Email = "john@example.com"
        /\ calls[p] = {"GetByEmail", "Create"} /\ faults[p] = {}
        /\ res[p].err = ErrUniqueMID
        /\ \E u \in loc[p], r \in users :
              r.ID = 1 /\ r.MembershipID = u.MembershipID
        /\ users = SeedUsers

(***************************************************************************)
(* C16  For every value of the time source, GenerateMembershipID returns   *)
(* "LBK" followed by exactly six decimal digits: the number is the         *)
(* nanosecond timestamp mod 999999, always in 0 .. 999998, zero-padded to  *)
(* width 6, so the result is always 9 characters long.                     *)
(***************************************************************************)
C16_MembershipIdFormat ==
    \A p \in Procs :
        pc[p] = "c_insert" =>
        \A u \in loc[p] :
            LET id == u.MembershipID IN
            /\ Len(id) = 9
            /\ SubSeq(id, 1, 3) = <<"L", "B", "K">>
            /\ \A i \in 4 .. Len(id) :
                  id[i] \in {"0", "1", "2", "3", "4", "5", "6", "7", "8", "9"}
            /\ DigitsValue(SubSeq(id, 4, Len(id)), 0) \in 0 .. 999998

(***************************************************************************)
(* C17  The handler maps every outcome of the use case to one HTTP status: *)
(* success is 201 for POST and 200 for GET, PUT and DELETE; the not-found  *)
(* error is 404 on GET, PUT and DELETE by id; the missing-required-fields  *)
(* and duplicate-email errors are 400 on POST and the duplicate-email      *)
(* error is 400 on PUT; every other error is 500.                          *)
(***************************************************************************)
C17_StatusMapping ==
    \A p \in Procs :
        ( Done(p) /\ invoked[p] # {} ) =>
        LET op  == req[p].op
            err == res[p].err
        IN  resp[p].status =
              ( IF err = "" THEN (IF op = "create" THEN 201 ELSE 200)
                ELSE IF err = "user not found" /\ op \in {"get", "update", "delete"}
                     THEN 404
                ELSE IF err = "first name, last name, and email are required"
                        /\ op = "create"
                     THEN 400
                ELSE IF err = "user with this email already exists"
                        /\ op \in {"create", "update"}
                     THEN 400
                ELSE 500 )

\* a PUT was refused as a duplicate email with 400, and a DELETE of id 0 was
\* refused by the use case as an invalid id with 500
C17_Witness ==
    \E p \in Procs :
        /\ Done(p) /\ req[p].op = "update"
        /\ res[p].err = ErrDuplicate /\ resp[p].status = 400
        /\ Done(Other(p)) /\ req[Other(p)].op = "delete"
        /\ invoked[Other(p)] = {"DeleteUser"}
        /\ res[Other(p)].err = ErrInvalidID /\ resp[Other(p)].status = 500

(***************************************************************************)
(* C18  The body of a 500 response does not depend on the internal error:  *)
(* for any two errors of the use case that the handler of one endpoint     *)
(* classifies as "anything else", the two responses are equal, status 500  *)
(* with the fixed generic message of the endpoint, and the message is not  *)
(* the text of either error.                                               *)
(***************************************************************************)
\* the handler of op has no case for the error of the request of slot p
C18_Unclassified(p) ==
    LET op  == req[p].op
        err == res[p].err
    IN  /\ Done(p) /\ invoked[p] # {}
        /\ err # ""
        /\ ~ ( err = "user not found" /\ op \in {"get", "update", "delete"} )
        /\ ~ ( err = "first name, last name, and email are required" /\ op = "create" )
        /\ ~ ( err = "user with this email already exists" /\ op \in {"create", "update"} )

C18_GenericServerError ==
    \A p \in Procs, q \in Procs :
        ( C18_Unclassified(p) /\ C18_Unclassified(q) /\ req[p].op = req[q].op ) =>
        /\ resp[p] = resp[q]
        /\ resp[p].status = 500
        /\ resp[p].error \notin {res[p].err, res[q].err}
        /\ resp[p].error \in { "Failed to retrieve users", "Failed to retrieve user",
                                "Failed to create user", "Failed to update user",
                                "Failed to delete user" }

\* two POSTs failed for different internal reasons, a storage fault and a
\* uniqueness error of the storage, and were given the same 500 answer
C18_Witness ==
    \E p \in Procs :
        /\ Done(p) /\ Done(Other(p))
        /\ req[p].op = "create" /\ req[Other(p)].op = "create"
        /\ res[p].err = ErrStorage
        /\ res[Other(p)].err \in {ErrUniqueEmail, ErrUniqueMID}
        /\ resp[p] = [status |-> 500, error |-> "Failed to create user"]
        /\ resp[Other(p)] = resp[p]

(***************************************************************************)
(* C19  The handler never calls the use case for a request that fails      *)
(* parsing: a path id that does not parse is answered 400 "Invalid user    *)
(* ID" and a body that does not parse 400 "Invalid request body", in both  *)
(* cases with no use-case call, no repository call and no change of the    *)
(* table; for PUT the id is checked before the body, so a PUT in which     *)
(* neither parses is answered "Invalid user ID".                           *)
(***************************************************************************)
C19_ParseFailures ==
    \A p \in Procs :
        LET badId   == req[p].op \in {"get", "update", "delete"}
                         /\ req[p].path \in BadPaths
            badBody == req[p].op \in {"create", "update"} /\ ~req[p].raw.json
        IN  /\ ( (badId \/ badBody) =>
                   /\ Done(p)
                   /\ invoked[p] = {} /\ calls[p] = {} /\ ~wrote[p]
                   /\ res[p] = NoRes )
            /\ ( badId => resp[p] = [status |-> 400, error |-> "Invalid user ID"] )
            /\ ( (badBody /\ ~badId) =>
                   resp[p] = [status |-> 400, error |-> "Invalid request body"] )

\* a PUT whose path id and body both fail to parse was answered "Invalid
\* user ID", and a POST with a malformed body "Invalid request body"
C19_Witness ==
    \E p \in Procs :
        /\ Done(p) /\ req[p].op = "update"
        /\ req[p].path = <<"a", "b", "c">> /\ ~req[p].raw.json
        /\ resp[p] = [status |-> 400, error |-> "Invalid user ID"]
        /\ Done(Other(p)) /\ req[Other(p)].op = "create"
        /\ ~req[Other(p)].raw.json
        /\ resp[Other(p)] = [status |-> 400, error |-> "Invalid request body"]
        /\ invoked[p] = {} /\ invoked[Other(p)] = {}
        /\ users = SeedUsers

(***************************************************************************)
(* C20  A GET, PUT or DELETE on /users/:id whose path id does not parse    *)
(* as an unsigned 32-bit decimal number is answered 400 before the use     *)
(* case is reached.  The id 0 parses: the request reaches the use case,    *)
(* which rejects it as InvalidID before any repository call, and the       *)
(* handler answers 500.                                                    *)
(***************************************************************************)
C20_InvalidIdAnswer ==
    \A p \in Procs :
        req[p].op \in {"get", "update", "delete"} =>
        /\ ( req[p].path \in BadPaths =>
               /\ Done(p)
               /\ resp[p].status = 400
               /\ invoked[p] = {} /\ calls[p] = {} )
        /\ ( ( req[p].path = <<"0">> /\ req[p].raw.json ) =>
               /\ Done(p)
               /\ invoked[p] # {}
               /\ res[p] = [user |-> {}, err |-> ErrInvalidID]
               /\ resp[p].status = 500
               /\ calls[p] = {} /\ ~wrote[p] )

\* C20 as stated, id 0 included among the invalid ids: refuted by a request
\* on /users/0, which the use case rejects and the handler answers 500
C20_InvalidIdIs400 ==
    \A p \in Procs :
        ( /\ req[p].op \in {"get", "update", "delete"}
          /\ req[p].path \in BadPaths \cup {<<"0">>}
          /\ Done(p) )
        => ( resp[p].status = 400 /\ invoked[p] = {} )

\* GET /users/0 reached the use case and was answered 500, and
\* DELETE /users/-1 was answered 400 by the handler
C20_Witness ==
    \E p \in Procs :
        /\ Done(p) /\ req[p].op = "get" /\ req[p].path = <<"0">>
        /\ invoked[p] = {"GetUserByID"}
        /\ res[p].err = ErrInvalidID
        /\ resp[p] = [status |-> 500, error |-> "Failed to retrieve user"]
        /\ Done(Other(p)) /\ req[Other(p)].op = "delete"
        /\ req[Other(p)].path = <<"-", "1">>
        /\ invoked[Other(p)] = {}
        /\ resp[Other(p)].status = 400

(***************************************************************************)
(* C21  Round trip through the store, for requests running one after       *)
(* another with no storage fault in the read: after a successful Create,   *)
(* GetByID with the assigned id and GetByEmail with its email both return  *)
(* the created user; after a successful Update, GetByID returns the        *)
(* updated user; after a successful Delete, GetByID returns an error and   *)
(* no user.  The same holds of a GET /users/:id that follows the request.  *)
(***************************************************************************)
C21_RoundTrip ==
    \A q \in Procs :
        ( /\ Done(q) /\ invoked[q] # {} /\ ~overlap[q]
          /\ res[q].err = NoErr )
        =>
        /\ ( req[q].n = nreq =>
               /\ ( req[q].op = "create" =>
                      \A u \in res[q].user :
                         /\ GetByID(users, u.ID, FALSE) = [user |-> {u}, err |-> NoErr]
                         /\ GetByEmail(users, u.Email, FALSE) = [user |-> {u}, err |-> NoErr] )
               /\ ( req[q].op = "update" =>
                      \A u \in res[q].user :
                         GetByID(users, u.ID, FALSE) = [user |-> {u}, err |-> NoErr] )
               /\ ( req[q].op = "delete" =>
                      LET g == GetByID(users, req[q].id, FALSE)
                      IN  g.err # NoErr /\ g.user = {} ) )
        /\ LET p == Other(q) IN
           ( /\ Done(p) /\ req[p].op = "get" /\ ~overlap[p]
             /\ req[p].n = req[q].n + 1
             /\ faults[p] = {} )
           =>
           /\ ( ( /\ req[q].op \in {"create", "update"}
                  /\ \E u \in res[q].user : u.ID = req[p].id )
                => res[p] = [user |-> res[q].user, err |-> NoErr] )
           /\ ( ( req[q].op = "delete" /\ req[q].id = req[p].id )
                => ( res[p].err # NoErr /\ res[p].user = {} ) )

\* a successful update of every field of user 2 was followed by GET /users/2,
\* which returned the updated user
C21_Witness ==
    \E p \in Procs :
        LET q == Other(p) IN
        /\ Done(q) /\ req[q].op = "update" /\ req[q].id = 2
        /\ res[q].err = NoErr /\ ~overlap[q]
        /\ Done(p) /\ req[p].op = "get" /\ req[p].id = 2
        /\ req[p].n = req[q].n + 1
        /\ res[p].err = NoErr
        /\ res[p].user = res[q].user
        /\ \E u \in res[p].user :
              u.FirstName = "Jane" /\ u.Email = "john@example.com" /\ u.Points = 300

(***************************************************************************)
(* C22  For id = 0, GetUserByID, UpdateUser and DeleteUser of the use case *)
(* each fail with InvalidID ("invalid user ID") and return no user,        *)
(* without calling any repository operation and without changing the       *)
(* table.                                                                  *)
(***************************************************************************)
C22_ZeroIdRejected ==
    \A p \in Procs :
        ( /\ invoked[p] \cap {"GetUserByID", "UpdateUser", "DeleteUser"} # {}
          /\ req[p].id = 0 )
        => ( /\ Done(p)
             /\ res[p] = [user |-> {}, err |-> "invalid user ID"]
             /\ calls[p] = {}
             /\ ~wrote[p] )

\* PUT /users/0 with every field supplied and DELETE /users/0 were both
\* rejected by the use case, and the table is as seeded
C22_Witness ==
    \E p \in Procs :
        /\ Done(p) /\ invoked[p] = {"UpdateUser"} /\ req[p].id = 0
        /\ req[p].body.FirstName = "Jane" /\ req[p].body.Email # ""
        /\ res[p].err = ErrInvalidID
        /\ Done(Other(p)) /\ invoked[Other(p)] = {"DeleteUser"}
        /\ req[Other(p)].id = 0
        /\ res[Other(p)].err = ErrInvalidID
        /\ calls[p] = {} /\ calls[Other(p)] = {}
        /\ users = SeedUsers

(***************************************************************************)
(* C23  When requests run one after another, UpdateUser with a non-zero id *)
(* that has no row propagates NotFound (answered 404), calls neither the   *)
(* email probe nor repository.update, and creates no row: the load by id   *)
(* that finds no row ends the request, and an update running alone never   *)
(* saves a row that is not in the table.  The load is taken to answer (no  *)
(* storage fault).                                                         *)
(***************************************************************************)
C23_UpdateMissingRow ==
    [][\A p \in Procs :
         ( req[p].op = "update" /\ ~overlap'[p] ) =>
         /\ ( ( /\ StepFrom(p, "u_load")
                /\ "GetByID" \notin faults'[p]
                /\ req[p].id \notin Ids(users) )
              => ( /\ req[p].id # 0
                   /\ pc'[p] = "done"
                   /\ res'[p] = [user |-> {}, err |-> ErrNotFound]
                   /\ resp'[p] = [status |-> 404, error |-> "User not found"]
                   /\ calls'[p] = {"GetByID"}
                   /\ ~wrote'[p]
                   /\ users' = users ) )
         /\ ( StepFrom(p, "u_save")
              => ( /\ req[p].id \in Ids(users)
                   /\ Ids(users') = Ids(users) ) )]_vars

\* PUT /users/3 with every field supplied, on the seeded table and running
\* alone, was answered NotFound after the load by id alone
C23_Witness ==
    \E p \in Procs :
        /\ Done(p) /\ req[p].op = "update" /\ req[p].id = 3
        /\ req[p].body = Body("Jane", "Smith", "john@example.com", "555-0000", "Bronze", 300)
        /\ ~overlap[p]
        /\ res[p] = [user |-> {}, err |-> ErrNotFound]
        /\ resp[p].status = 404
        /\ calls[p] = {"GetByID"} /\ faults[p] = {}
        /\ users = SeedUsers

(***************************************************************************)
(* C24  In the non-persistent variant (process-wide users list, new id =   *)
(* current list length + 1), after any sequence or interleaving of         *)
(* createUser and deleteUser requests the ids of the users in the list are *)
(* pairwise distinct.                                                      *)
(***************************************************************************)
C24_MemIdsDistinct ==
    \A i \in 1 .. Len(users), j \in 1 .. Len(users) :
        i # j => users[i].ID # users[j].ID

(***************************************************************************)
(* C25  A Create that passed the probe and whose insert the storage        *)
(* rejected for a uniqueness constraint (the loser of a same-email race)   *)
(* returns the storage's error as it is and no user, and the handler       *)
(* answers 500 "Failed to create user", not the 400 duplicate-email        *)
(* answer; no Create that failed is answered 201.                          *)
(***************************************************************************)
C25_RaceLoserAnswer ==
    \A p \in Procs :
        ( Done(p) /\ req[p].op = "create" /\ invoked[p] # {} ) =>
        /\ ( ( /\ "Create" \in calls[p]
               /\ "Create" \notin faults[p]
               /\ res[p].err # NoErr )
             => ( /\ res[p].err \in {ErrUniqueEmail, ErrUniqueMID}
                  /\ res[p].user = {}
                  /\ resp[p] = Response(500, "Failed to create user")
                  /\ resp[p] # Response(400, ErrDuplicate) ) )
        /\ ( res[p].err # NoErr => resp[p].status \in {400, 500} )
        /\ ( resp[p].status = 201 => res[p].err = NoErr )

\* two creates of one email overlapped with no storage fault: one was
\* answered 201, the other lost at the insert and was answered 500
C25_Witness ==
    \E p \in Procs :
        LET q == Other(p) IN
        /\ Done(p) /\ Done(q)
        /\ req[p].op = "create" /\ req[q].op = "create"
        /\ req[p].body.Email = req[q].body.Email
        /\ overlap[p] /\ overlap[q]
        /\ faults[p] = {} /\ faults[q] = {}
        /\ calls[p] = {"GetByEmail", "Create"}
        /\ res[p].err = ErrUniqueEmail
        /\ resp[p] = Response(500, "Failed to create user")
        /\ resp[q].status = 201

(***************************************************************************)
(* C26  The email probe of CreateUser and of UpdateUser drops the error of *)
(* GetByEmail: whenever the probe returns no user, for NotFound or for a   *)
(* storage fault, nothing is returned at the probe, the entity takes the   *)
(* request's email and the request goes on to repository.create /          *)
(* repository.update; a request whose probe faulted ends only after that   *)
(* call, with that call's result.                                          *)
(***************************************************************************)
C26_ProbeErrorDiscarded ==
    [][\A p \in Procs :
         LET g == GetByEmail(users, req[p].body.Email, "GetByEmail" \in faults'[p])
         IN  /\ ( ( StepFrom(p, "c_probe") /\ g.user = {} )
                  => ( /\ pc'[p] = "c_insert"
                       /\ res'[p] = NoRes /\ resp'[p] = NoResp
                       /\ \A u \in loc'[p] : u.Email = req[p].body.Email
                       /\ loc'[p] # {} ) )
             /\ ( ( StepFrom(p, "u_probe") /\ g.user = {} )
                  => ( /\ pc'[p] = "u_save"
                       /\ res'[p] = NoRes /\ resp'[p] = NoResp
                       /\ \A u \in loc'[p] : u.Email = req[p].body.Email
                       /\ loc'[p] # {} ) )
             /\ ( ( pc'[p] = "done" /\ "GetByEmail" \in faults'[p] )
                  => ( /\ req[p].op = "create" => "Create" \in calls'[p]
                       /\ req[p].op = "update" => "Update" \in calls'[p]
                       /\ res'[p].err # ErrStorage
                            => {"Create", "Update"} \cap faults'[p] = {} ) )]_vars

\* the probe of a create and the probe of an update both hit a storage
\* fault, and both requests went on and succeeded
C26_Witness ==
    \E p \in Procs :
        LET q == Other(p) IN
        /\ Done(p) /\ Done(q)
        /\ req[p].op = "create" /\ req[q].op = "update"
        /\ faults[p] = {"GetByEmail"} /\ faults[q] = {"GetByEmail"}
        /\ "Create" \in calls[p] /\ "Update" \in calls[q]
        /\ res[p].err = NoErr /\ res[q].err = NoErr
        /\ resp[p].status = 201 /\ resp[q].status = 200

(***************************************************************************)
(* C27  UpdateUser writes back the whole row it loaded.  Two UpdateUser    *)
(* requests for one id are the first two requests, so the row before both  *)
(* is the seeded one; one has saved with success and the other still       *)
(* holds the row as it was before both (it loaded before the first save).  *)
(* When the second save is not failed by the storage it succeeds unless    *)
(* its new email is taken, the stored row, which was the first request's   *)
(* result, becomes the second request's merged entity, every field the     *)
(* second request left empty has its value from before both updates, and   *)
(* both requests are answered 200.                                         *)
(***************************************************************************)
C27_LostUpdate ==
    [][\A p \in Procs :
         LET q  == Other(p)
             b  == req[p].body
             id == req[p].id
         IN  \A r0 \in SeedUsers, lp \in loc[p], mq \in res[q].user :
               ( /\ StepFrom(p, "u_save")
                 /\ Done(q) /\ req[q].op = "update" /\ res[q].err = NoErr
                 /\ req[q].id = id /\ r0.ID = id
                 /\ req[p].n + req[q].n = 3
                 /\ lp \in {r0, [r0 EXCEPT !.Email = b.Email]}
                 /\ "Update" \notin faults'[p] )
               => LET m == MergeFields(lp, b) IN
                  /\ RowsWithId(users, id) = {mq}
                  /\ res'[p].err \in {NoErr, ErrUniqueEmail}
                  /\ lp.Email = r0.Email => res'[p].err = NoErr
                  /\ res'[p].err = NoErr =>
                       /\ RowsWithId(users', id) = {m}
                       /\ res'[p].user = {m}
                       /\ resp'[p].status = 200 /\ resp'[q].status = 200
                       /\ b.FirstName = "" => m.FirstName = r0.FirstName
                       /\ b.LastName = "" => m.LastName = r0.LastName
                       /\ b.Phone = "" => m.Phone = r0.Phone
                       /\ b.MembershipType = "" => m.MembershipType = r0.MembershipType
                       /\ b.Points = 0 => m.Points = r0.Points
                       /\ b.Email = "" => m.Email = r0.Email
                       /\ m.MembershipID = r0.MembershipID
                       /\ m.JoinDate = r0.JoinDate]_vars

\* two updates of user 1 overlapped without a storage fault, one giving
\* only a first name and one only the points; both succeeded, and the
\* stored row has the new points and the first name from before both
C27_Witness ==
    \E p \in Procs :
        LET q == Other(p) IN
        /\ Done(p) /\ Done(q)
        /\ req[p].op = "update" /\ req[q].op = "update"
        /\ req[p].id = 1 /\ req[q].id = 1
        /\ req[p].body = Body("", "", "", "", "", 300)
        /\ req[q].body = Body("Jane", "", "", "", "", 0)
        /\ faults[p] = {} /\ faults[q] = {}
        /\ res[p].err = NoErr /\ res[q].err = NoErr
        /\ \A u \in res[q].user : u.FirstName = "Jane"
        /\ \E r \in users :
              r.ID = 1 /\ r.FirstName = "Somchai" /\ r.Points = 300
        /\ res[p].user = RowsWithId(users, 1)

(***************************************************************************)
(* C28  Two DeleteUser requests for one id that is in the table, the only  *)
(* requests so far, have both ended without a storage fault, one after     *)
(* the other or interleaved: exactly one returned success and removed the  *)
(* row, the other returned NotFound (from the existence load, or from the  *)
(* affected-row count when both loads saw the row) and removed nothing;    *)
(* the row is gone and every other row is as it was.                       *)
(***************************************************************************)
C28_DeleteOnce ==
    \A p \in Procs :
        LET q  == Other(p)
            id == req[p].id
        IN  ( /\ Done(p) /\ Done(q)
              /\ req[p].op = "delete" /\ req[q].op = "delete"
              /\ invoked[p] # {} /\ invoked[q] # {}
              /\ req[q].id = id /\ id \in Ids(SeedUsers)
              /\ req[p].n + req[q].n = 3
              /\ faults[p] = {} /\ faults[q] = {} )
            => ( /\ {res[p].err, res[q].err} = {NoErr, ErrNotFound}
                 /\ {resp[p].status, resp[q].status} = {200, 404}
                 /\ wrote[p] = (res[p].err = NoErr)
                 /\ wrote[q] = (res[q].err = NoErr)
                 /\ wrote[p] # wrote[q]
                 /\ res[p].err = NoErr => "Delete" \in calls[p]
                 /\ users = {r \in SeedUsers : r.ID # id} )

\* both deletes of user 1 loaded the row before either removed it: one
\* succeeded, the other got NotFound from the affected-row count
C28_Witness ==
    \E p \in Procs :
        LET q == Other(p) IN
        /\ Done(p) /\ Done(q)
        /\ req[p].op = "delete" /\ req[q].op = "delete"
        /\ req[p].id = 1 /\ req[q].id = 1
        /\ faults[p] = {} /\ faults[q] = {}
        /\ calls[p] = {"GetByID", "Delete"} /\ calls[q] = {"GetByID", "Delete"}
        /\ res[p].err = NoErr /\ res[q].err = ErrNotFound
        /\ resp[q] = Response(404, "User not found")
        /\ RowsWithId(users, 1) = {}

(***************************************************************************)
(* C29  An Update whose email is the email of the row it loaded skips the  *)
(* probe: the load goes straight to the save with the loaded row and       *)
(* GetByEmail is not called.  Such a request never returns DuplicateEmail  *)
(* and is never answered with it; the entity it saves is the merge of the  *)
(* loaded row with the request as if the request carried no email, so the  *)
(* email stays; the save is refused only by a storage fault or by a        *)
(* unique constraint that another row has come to hold meanwhile, and      *)
(* then the table is unchanged; otherwise the merged entity is returned    *)
(* and stored.                                                             *)
(***************************************************************************)
C29_OwnEmailUpdate ==
    [][\A p \in Procs :
         LET b  == req[p].body
             id == req[p].id
         IN  /\ ( ( /\ StepFrom(p, "u_load")
                    /\ "GetByID" \notin faults'[p]
                    /\ \E r \in users : r.ID = id /\ r.Email = b.Email )
                  => ( /\ pc'[p] = "u_save"
                       /\ loc'[p] = RowsWithId(users, id)
                       /\ calls'[p] = {"GetByID"}
                       /\ res'[p] = NoRes ) )
             /\ ( ( /\ StepFrom(p, "u_save")
                    /\ b.Email # ""
                    /\ "GetByEmail" \notin calls[p] )
                  => \A lp \in loc[p] :
                       LET m == MergeFields(lp, [b EXCEPT !.Email = ""]) IN
                       /\ lp.Email = b.Email
                       /\ m.Email = lp.Email
                       /\ res'[p].err \notin {ErrDuplicate, ErrNotFound}
                       /\ resp'[p] # Response(400, ErrDuplicate)
                       /\ calls'[p] = {"GetByID", "Update"}
                       /\ ( ( "Update" \notin faults'[p]
                              /\ ConstraintError(users, m) = NoErr )
                            => res'[p].err = NoErr )
                       /\ res'[p].err = NoErr =>
                            /\ res'[p].user = {m}
                            /\ RowsWithId(users', id) = {m}
                            /\ resp'[p].status = 200
                       /\ res'[p].err # NoErr =>
                            /\ users' = users
                            /\ res'[p].err \in {ErrStorage, ErrUniqueEmail, ErrUniqueMID}
                            /\ resp'[p] = Response(500, "Failed to update user") )]_vars

\* an update of user 1 that gave every field, with the user's own email,
\* succeeded without probing: the other fields changed, the email stayed
C29_Witness ==
    \E p \in Procs :
        /\ Done(p) /\ req[p].op = "update" /\ req[p].id = 1
        /\ req[p].body =
             Body("Jane", "Smith", "somchai@example.com", "555-0000", "Bronze", 300)
        /\ calls[p] = {"GetByID", "Update"}
        /\ res[p].err = NoErr /\ resp[p].status = 200
        /\ \E r \in users :
              /\ r.ID = 1 /\ r.Email = "somchai@example.com"
              /\ r.FirstName = "Jane" /\ r.Phone = "555-0000" /\ r.Points = 300
              /\ res[p].user = {r}

====
